---- MODULE Spec2Model ----
(***************************************************************************)
(* GalaxyCite front end: the App component (papers, connections,          *)
(* selectedPaper, loading, yearRange and the handleSearch /                *)
(* fetchPaperNetwork pair), the TimelineSlider (yearStats,                 *)
(* getYearDistribution, the two range inputs) and the Galaxy               *)
(* (positionedPapers, centralPaperId, connections.map, ConnectionLine).    *)
(*                                                                         *)
(* JavaScript objects are records whose DOMAIN holds exactly the keys the  *)
(* object has: an absent key is an absent field.  A publication year and   *)
(* a citation count are integers; a connection strength is an integer     *)
(* number of tenths (0 .. 10 for 0.0 .. 1.0).                              *)
(***************************************************************************)
EXTENDS Integers, Sequences, FiniteSets, TLC

VARIABLES
    papers,         \* App: useState([])
    connections,    \* App: useState([])
    selectedPaper,  \* App: useState(null)
    loading,        \* App: useState(false)
    yearRange,      \* App: useState([1990, currentYear])
    hovered,        \* Star: useState(false) of each mounted Star, as the ids of those at true
    pending,        \* the handleSearch calls awaiting fetchPaperNetwork, oldest first;
                    \* overtaken (history) tells that a call issued later has
                    \* shown the graph of a successful response meanwhile
    state,          \* usePapers: useState({ papers, connections, loading, error, stats })
    calls,          \* the usePapers.fetchPaperNetwork calls awaiting their fetch, oldest
                    \* first; loaded (history) tells that the hook held publications
                    \* when the call was made
    lastOp          \* what changed the state last (history, read by the properties only)

vars == <<papers, connections, selectedPaper, loading, yearRange, hovered, pending,
          state, calls, lastOp>>

---------------------------------------------------------------------------
(* Bounds of the model.                                                    *)

\* longest publication list a fetched graph carries
MaxPapers == 2
\* handleSearch calls that may be awaiting their fetch at the same time
MaxPending == 2

---------------------------------------------------------------------------
(* JavaScript values.                                                      *)

\* new Date().getFullYear()
CurrentYear == 2026

\* null and undefined where a publication object is expected
JsNull == [js |-> "null"]
JsUndefined == [js |-> "undefined"]

\* null and undefined where an id (a string) is expected
NullId == "<null>"
UndefinedId == "<undefined>"

Has(obj, key) == key \in DOMAIN obj

IsPaper(v) == v # JsNull /\ v # JsUndefined

\* (paper.citation_count || 0)
CitationCount(paper) ==
    IF Has(paper, "citation_count") THEN paper.citation_count ELSE 0

\* (p.year || 0)
YearOrZero(paper) == IF Has(paper, "year") THEN paper.year ELSE 0

Min(a, b) == IF a < b THEN a ELSE b
Max(a, b) == IF a > b THEN a ELSE b

\* s.find(p => p.id === id): the first element with the id, else undefined
FindById(s, id) ==
    LET hits == {i \in 1..Len(s) : s[i].id = id}
    IN  IF hits = {} THEN JsUndefined
        ELSE s[CHOOSE i \in hits : \A j \in hits : i <= j]

RECURSIVE SumSeq(_)
SumSeq(s) == IF s = <<>> THEN 0 ELSE Head(s) + SumSeq(Tail(s))

\* sequences over S of length 0 .. n
SeqsUpTo(S, n) == UNION {[1..k -> S] : k \in 0..n}

---------------------------------------------------------------------------
(* App.fetchPaperNetwork: the transform of the response.                   *)

\* PaperId without the || default: a record without id stays without one
PaperIdAsGiven(paper, token) == IF Has(paper, "id") THEN paper.id ELSE ""

\* paper.id || Math.random().toString(): token is what Math.random yields
PaperId(paper, token) ==
    IF Has(paper, "id") /\ paper.id # "" THEN paper.id ELSE token

\* { ...paper, id: paper.id || Math.random().toString(),
\*   fields: paper.fields || [], authors: paper.authors || [] }
NormalizePaper(paper, token) ==
    [k \in DOMAIN paper \cup {"id", "fields", "authors"} |->
        CASE k = "id" -> PaperId(paper, token)
          [] k = "fields" -> IF Has(paper, "fields") THEN paper.fields ELSE <<>>
          [] k = "authors" -> IF Has(paper, "authors") THEN paper.authors ELSE <<>>
          [] OTHER -> paper[k]]

\* Object.values(data.network.papers).map(...): tokens[i] is the value
\* Math.random().toString() takes for the i-th record, used only when the
\* record has no id
PapersList(rawPapers, tokens) ==
    [i \in 1..Len(rawPapers) |-> NormalizePaper(rawPapers[i], tokens[i])]

\* what Math.random().toString() may return: nothing makes two calls differ
RandomTokens == {"0.11", "0.22"}

\* the fetch rejected, the status was not OK, or data.network is undefined
\* (reading data.network.papers throws): fetchPaperNetwork rethrows
FetchThrows(response) ==
    IF response.kind = "rejected" THEN TRUE
    ELSE IF ~response.ok THEN TRUE
    ELSE ~Has(response.data, "network")

\* the values fetchPaperNetwork may return for a response that does not throw
FetchResults(response) ==
    LET net == response.data.network
    IN  {[papers |-> PapersList(net.papers, tokens),
          edges |-> IF Has(net, "edges") THEN net.edges ELSE <<>>,
          central_paper |->
              IF Has(net, "central_paper") THEN net.central_paper ELSE UndefinedId]
         : tokens \in [1..Len(net.papers) -> RandomTokens]}

\* CentralOrFirst without the hint: the first publication, whatever the hint
FirstPaper(result) ==
    IF Len(result.papers) > 0 THEN result.papers[1] ELSE JsUndefined

\* result.papers.find(p => p.id === result.central_paper) || result.papers[0]
CentralOrFirst(result) ==
    LET centralPaper == FindById(result.papers, result.central_paper)
    IN  IF IsPaper(centralPaper) THEN centralPaper
        ELSE IF Len(result.papers) > 0 THEN result.papers[1]
        ELSE JsUndefined

---------------------------------------------------------------------------
(* App: derived values of a render.                                        *)

\* InYearRange with || for &&: one bound passed is enough
InYearRangeEither(paper, range) ==
    /\ Has(paper, "year")
    /\ (paper.year >= range[1] \/ paper.year <= range[2])

\* InYearRange with > and < for >= and <=
InYearRangeExclusive(paper, range) ==
    /\ Has(paper, "year")
    /\ paper.year > range[1]
    /\ paper.year < range[2]

\* paper.year >= yearRange[0] && paper.year <= yearRange[1]
\* (an undefined year compares false with every number)
InYearRange(paper, range) ==
    /\ Has(paper, "year")
    /\ paper.year >= range[1]
    /\ paper.year <= range[2]

FilteredPapers(ps, range) == SelectSeq(ps, LAMBDA p : InYearRange(p, range))

filteredPapers == FilteredPapers(papers, yearRange)

\* GalaxyPapers with the unfiltered list passed
GalaxyPapersUnfiltered == papers

\* <GalaxyVisualizer papers={filteredPapers} .../>: the Galaxy's papers prop
GalaxyPapers == filteredPapers

\* selectedPaper?.id
selectedPaperId == IF IsPaper(selectedPaper) THEN selectedPaper.id ELSE UndefinedId

\* loading ? <LoadingSpinner/> : papers.length > 0 ? <GalaxyVisualizer/> : ...
GalaxyMounted == ~loading /\ Len(papers) > 0

\* {papers.length > 0 && (... <TimelineSlider/> ... Reset Timeline, Last 5 Years)}
TimelineMounted == Len(papers) > 0

\* the keys of the Stars a render mounts: key={paper.id} of the Galaxy's papers
\* prop, none while the spinner or the placeholder replaces the Galaxy
MountedStarIds(ps, range, busy) ==
    IF ~busy /\ Len(ps) > 0
    THEN {FilteredPapers(ps, range)[i].id : i \in 1..Len(FilteredPapers(ps, range))}
    ELSE {}

\* a render after a state change: a Star keeps its hovered state while a Star
\* of its key stays mounted, and a Star that mounts starts at false
Rerender == hovered' = hovered \cap MountedStarIds(papers', yearRange', loading')

---------------------------------------------------------------------------
(* Galaxy.                                                                 *)

\* The position of the index-th (from 0) of total publications.  The
\* coordinates are trigonometric functions of (index, total) scaled by the
\* radius 8 + citation_count * 0.05; the position is kept as these three
\* parameters, the radius in units of 0.05, and the origin as radius 0.
Position(index, total, paper) ==
    IF total = 1 THEN [index |-> 0, total |-> 1, radius |-> 0]
    ELSE [index |-> index, total |-> total, radius |-> 160 + CitationCount(paper)]

\* papers.map((paper, index) => ({ ...paper, position: [x, y, z] }))
positionedPapers(ps) ==
    [i \in 1..Len(ps) |->
        [k \in DOMAIN ps[i] \cup {"position"} |->
            IF k = "position" THEN Position(i - 1, Len(ps), ps[i]) ELSE ps[i][k]]]

\* Reduce with < for >: the less cited publication is kept
RECURSIVE ReduceKeepingLess(_, _)
ReduceKeepingLess(prev, rest) ==
    IF rest = <<>> THEN prev
    ELSE ReduceKeepingLess(IF CitationCount(prev) < CitationCount(Head(rest))
                           THEN prev ELSE Head(rest),
                           Tail(rest))

\* Reduce with >= for >: the earlier of two tied publications is kept
RECURSIVE ReduceKeepingTied(_, _)
ReduceKeepingTied(prev, rest) ==
    IF rest = <<>> THEN prev
    ELSE ReduceKeepingTied(IF CitationCount(prev) >= CitationCount(Head(rest))
                           THEN prev ELSE Head(rest),
                           Tail(rest))

\* papers.reduce((prev, current) =>
\*   (prev.citation_count || 0) > (current.citation_count || 0) ? prev : current)
RECURSIVE Reduce(_, _)
Reduce(prev, rest) ==
    IF rest = <<>> THEN prev
    ELSE Reduce(IF CitationCount(prev) > CitationCount(Head(rest))
                THEN prev ELSE Head(rest),
                Tail(rest))

centralPaperId(ps) ==
    IF Len(ps) > 0 THEN Reduce(Head(ps), Tail(ps)).id ELSE NullId

\* strength={connection.strength || 1}, in tenths
StrengthProp(connection) ==
    IF Has(connection, "strength") /\ connection.strength # 0
    THEN connection.strength ELSE 10

\* ConnectionLine({ start, end, strength }): the colour is 0x60A5FA lerped to
\* 0x8B5CF6 by strength (channels in tenths of a level), lineWidth is
\* Math.max(0.3, strength * 2) in tenths, opacity 0.2 + strength * 0.3 in
\* hundredths
ConnectionLine(start, end, strength) ==
    [start |-> start, end |-> end,
     blend |-> strength,
     color |-> [r |-> 960 + 43 * strength,
                g |-> 1650 - 73 * strength,
                b |-> 2500 - 4 * strength],
     lineWidth |-> Max(3, strength * 2),
     opacity |-> 20 + strength * 3]

\* ConnectionLines with the test of targetPaper dropped: a connection is drawn
\* from its source, to its target when that is positioned
ConnectionLinesFromSource(positioned, conns) ==
    [i \in 1..Len(conns) |->
        LET sourcePaper == FindById(positioned, conns[i].source)
            targetPaper == FindById(positioned, conns[i].target)
        IN  IF IsPaper(sourcePaper)
            THEN ConnectionLine(sourcePaper.position,
                                IF IsPaper(targetPaper) THEN targetPaper.position
                                ELSE sourcePaper.position,
                                StrengthProp(conns[i]))
            ELSE JsNull]

\* connections.map((connection, index) => ...): a ConnectionLine, or null
ConnectionLines(positioned, conns) ==
    [i \in 1..Len(conns) |->
        LET sourcePaper == FindById(positioned, conns[i].source)
            targetPaper == FindById(positioned, conns[i].target)
        IN  IF IsPaper(sourcePaper) /\ IsPaper(targetPaper)
            THEN ConnectionLine(sourcePaper.position, targetPaper.position,
                                StrengthProp(conns[i]))
            ELSE JsNull]

\* what the Galaxy draws for the connections: nothing while it is not mounted
RenderedLines ==
    IF GalaxyMounted
    THEN ConnectionLines(positionedPapers(GalaxyPapers), connections)
    ELSE [i \in 1..Len(connections) |-> JsNull]

\* StarScale with the two tests in the other order: hover wins over selection
StarScaleHoverFirst(isSelected, isHovered) ==
    IF isHovered THEN 15 ELSE IF isSelected THEN 20 ELSE 10

\* useSpring({ scale: isSelected ? 2 : (hovered ? 1.5 : 1) }), in tenths
StarScale(isSelected, isHovered) ==
    IF isSelected THEN 20 ELSE IF isHovered THEN 15 ELSE 10

\* Star({ paper, isSelected, isCentral }) with its hovered state: the scale
\* target, the halo ({isSelected && ...}), the title label ({isCentral && ...})
\* and the hover label ({hovered && !isSelected && ...})
Star(paper, isSelected, isCentral, isHovered) ==
    [id |-> paper.id,
     position |-> paper.position,
     scale |-> StarScale(isSelected, isHovered),
     halo |-> isSelected,
     centralLabel |-> isCentral,
     hoverLabel |-> isHovered /\ ~isSelected]

\* positionedPapers.map(paper => <Star key={paper.id} ...
\*   isSelected={paper.id === selectedPaperId} isCentral={paper.id === centralPaperId}/>)
RenderedStars ==
    IF GalaxyMounted
    THEN LET positioned == positionedPapers(GalaxyPapers)
         IN  [i \in 1..Len(positioned) |->
                 Star(positioned[i],
                      positioned[i].id = selectedPaperId,
                      positioned[i].id = centralPaperId(GalaxyPapers),
                      positioned[i].id \in hovered)]
    ELSE <<>>

---------------------------------------------------------------------------
(* TimelineSlider.                                                         *)

\* papers.map(p => p.year || 0).filter(y => y > 1900), then min and max
yearStats(ps) ==
    LET years == {y \in {YearOrZero(ps[i]) : i \in 1..Len(ps)} : y > 1900}
    IN  IF Len(ps) = 0 \/ years = {}
        THEN [minYear |-> 1900, maxYear |-> CurrentYear]
        ELSE [minYear |-> CHOOSE y \in years : \A z \in years : y <= z,
              maxYear |-> CHOOSE y \in years : \A z \in years : y >= z]

\* HasYear testing the key only: a year of 0 counts as a year
HasYearKey(paper) == Has(paper, "year")

\* if (paper.year)
HasYear(paper) == Has(paper, "year") /\ paper.year # 0

\* Math.max(0, Math.min(buckets - 1, Math.floor(((year - minYear) / range) * buckets)))
\* (the integer quotient equals the floating-point floor wherever the clamp
\* leaves them apart: range up to 200, year down to minYear - 300)
SafeBucket(year, minYear, range, buckets) ==
    Max(0, Min(buckets - 1, ((year - minYear) * buckets) \div range))

\* papers.forEach(paper => { if (paper.year) distribution[safeBucket] += 1 })
RECURSIVE Tally(_, _, _, _, _)
Tally(distribution, ps, minYear, range, buckets) ==
    IF ps = <<>> THEN distribution
    ELSE LET paper == Head(ps)
             b == SafeBucket(paper.year, minYear, range, buckets)
         IN  Tally(IF HasYear(paper)
                   THEN [distribution EXCEPT ![b] = @ + 1]
                   ELSE distribution,
                   Tail(ps), minYear, range, buckets)

\* getYearDistribution without the cap of 20 buckets
getYearDistributionUncapped(ps) ==
    LET stats == yearStats(ps)
        range == stats.maxYear - stats.minYear + 1
        distribution == Tally([i \in 0..(range - 1) |-> 0], ps,
                              stats.minYear, range, range)
    IN  [i \in 1..range |-> distribution[i - 1]]

\* getYearDistribution(): Object.values(distribution), bucket 0 first
getYearDistribution(ps) ==
    LET stats == yearStats(ps)
        range == stats.maxYear - stats.minYear + 1
        buckets == Min(range, 20)
        distribution == Tally([i \in 0..(buckets - 1) |-> 0], ps,
                              stats.minYear, range, buckets)
    IN  [i \in 1..buckets |-> distribution[i - 1]]

\* TimelinePapers with the filtered list passed
TimelinePapersFiltered == filteredPapers

\* <TimelineSlider yearRange={yearRange} onChange={setYearRange} papers={papers}/>:
\* the TimelineSlider's papers prop
TimelinePapers == papers

\* what the TimelineSlider shows: the bounds of its range inputs, the
\* histogram counts, and "Papers in range"
TimelineView ==
    IF TimelineMounted
    THEN [stats |-> yearStats(TimelinePapers),
          distribution |-> getYearDistribution(TimelinePapers),
          inRange |-> Len(FilteredPapers(TimelinePapers, yearRange))]
    ELSE JsNull

---------------------------------------------------------------------------
(* The state machine: App's handlers and the controls it mounts.           *)

\* useState([1990, new Date().getFullYear()])
DefaultRange == <<1990, CurrentYear>>

\* usePapers: useState({ papers: [], connections: [], loading: false,
\* error: null, stats: null }), also what clearPapers sets
InitialState ==
    [papers |-> <<>>, connections |-> <<>>, loading |-> FALSE,
     error |-> JsNull, stats |-> JsNull]

Init ==
    /\ papers = <<>>
    /\ connections = <<>>
    /\ selectedPaper = JsNull
    /\ loading = FALSE
    /\ yearRange = DefaultRange
    /\ hovered = {}
    /\ pending = <<>>
    /\ state = InitialState
    /\ calls = <<>>
    /\ lastOp = [op |-> "mount"]

\* String.prototype.trim on a string kept as its sequence of characters
RECURSIVE TrimStart(_)
TrimStart(s) == IF s # <<>> /\ Head(s) = " " THEN TrimStart(Tail(s)) ELSE s
RECURSIVE TrimEnd(_)
TrimEnd(s) ==
    IF s # <<>> /\ s[Len(s)] = " " THEN TrimEnd(SubSeq(s, 1, Len(s) - 1)) ELSE s
Trim(s) == TrimEnd(TrimStart(s))

RemoveAt(s, i) == SubSeq(s, 1, i - 1) \o SubSeq(s, i + 1, Len(s))

\* handleSearch, if (!input.trim()): toast.error and return
HandleSearchBlank(input) ==
    /\ Trim(input) = <<>>
    /\ UNCHANGED vars

\* handleSearch up to the await: setLoading(true), then the fetch is in flight
HandleSearch(input) ==
    /\ Trim(input) # <<>>
    /\ Len(pending) < MaxPending
    /\ loading' = TRUE
    /\ pending' = Append(pending, [input |-> input, overtaken |-> FALSE])
    /\ lastOp' = [op |-> "handleSearch"]
    /\ UNCHANGED <<papers, connections, selectedPaper, yearRange, state, calls>>
    /\ Rerender

\* ShowResult with a setYearRange to the default added
ShowResultResettingRange(result) ==
    /\ papers' = result.papers
    /\ connections' = result.edges
    /\ selectedPaper' = CentralOrFirst(result)
    /\ loading' = FALSE
    /\ yearRange' = DefaultRange

\* ShowResult without its setSelectedPaper: the selection outlives the graph
ShowResultKeepingSelection(result) ==
    /\ papers' = result.papers
    /\ connections' = result.edges
    /\ loading' = FALSE
    /\ UNCHANGED <<selectedPaper, yearRange>>

\* handleSearch after the await, try branch: setPapers, setConnections,
\* setSelectedPaper, and finally setLoading(false)
ShowResult(result) ==
    /\ papers' = result.papers
    /\ connections' = result.edges
    /\ selectedPaper' = CentralOrFirst(result)
    /\ loading' = FALSE
    /\ UNCHANGED yearRange

\* history: when the i-th pending call, not overtaken itself, shows the graph
\* of a response whose success flag is true, the calls issued before it and
\* still pending are overtaken
Overtake(entries, i, response) ==
    [j \in 1..Len(entries) |->
        IF j < i /\ ~entries[i].overtaken /\ response.data.success
        THEN [entries[j] EXCEPT !.overtaken = TRUE]
        ELSE entries[j]]

\* the i-th pending handleSearch resumes with a value of fetchPaperNetwork
SearchSucceeds(i, response) ==
    /\ i \in 1..Len(pending)
    /\ ~FetchThrows(response)
    /\ \E result \in FetchResults(response) : ShowResult(result)
    /\ pending' = RemoveAt(Overtake(pending, i, response), i)
    /\ lastOp' = [op |-> "searchSucceeded", response |-> response,
                  overtaken |-> pending[i].overtaken]
    /\ UNCHANGED <<state, calls>>
    /\ Rerender

\* the i-th pending handleSearch resumes in its catch branch: toast.error,
\* and finally setLoading(false)
SearchFails(i, response) ==
    /\ i \in 1..Len(pending)
    /\ FetchThrows(response)
    /\ loading' = FALSE
    /\ pending' = RemoveAt(pending, i)
    /\ lastOp' = [op |-> "searchFailed"]
    /\ UNCHANGED <<papers, connections, selectedPaper, yearRange, state, calls>>
    /\ Rerender

\* Star onClick -> onPaperSelect(paper) = setSelectedPaper(paper): the stars
\* are those of positionedPapers of the Galaxy's papers prop
StarClick(i) ==
    /\ GalaxyMounted
    /\ i \in 1..Len(GalaxyPapers)
    /\ selectedPaper' = positionedPapers(GalaxyPapers)[i]
    /\ lastOp' = [op |-> "setSelectedPaper"]
    /\ UNCHANGED <<papers, connections, loading, yearRange, pending, state, calls>>
    /\ Rerender

\* Star onPointerOver: setHovered(true)
PointerOver(i) ==
    /\ GalaxyMounted
    /\ i \in 1..Len(GalaxyPapers)
    /\ hovered' = hovered \cup {GalaxyPapers[i].id}
    /\ lastOp' = [op |-> "pointerOver", id |-> GalaxyPapers[i].id]
    /\ UNCHANGED <<papers, connections, selectedPaper, loading, yearRange, pending, state, calls>>

\* Star onPointerOut: setHovered(false), the pointer leaving a Star it was over
PointerOut(i) ==
    /\ GalaxyMounted
    /\ i \in 1..Len(GalaxyPapers)
    /\ GalaxyPapers[i].id \in hovered
    /\ hovered' = hovered \ {GalaxyPapers[i].id}
    /\ lastOp' = [op |-> "pointerOut", id |-> GalaxyPapers[i].id]
    /\ UNCHANGED <<papers, connections, selectedPaper, loading, yearRange, pending, state, calls>>

\* PaperCard onClose={() => setSelectedPaper(null)}, mounted when selectedPaper
CloseCard ==
    /\ IsPaper(selectedPaper)
    /\ selectedPaper' = JsNull
    /\ lastOp' = [op |-> "setSelectedPaper"]
    /\ UNCHANGED <<papers, connections, loading, yearRange, pending, state, calls>>
    /\ Rerender

\* the values a range input is moved to: the ends of [min, max] and their
\* neighbours inside it
SliderStops(ps) ==
    LET stats == yearStats(ps)
    IN  {y \in {stats.minYear, stats.minYear + 1, stats.maxYear - 1, stats.maxYear} :
            stats.minYear <= y /\ y <= stats.maxYear}

\* SlideLow clearing a selection that the new range leaves out
SlideLowDeselecting(value) ==
    /\ TimelineMounted
    /\ value \in SliderStops(TimelinePapers)
    /\ yearRange' = <<value, yearRange[2]>>
    /\ selectedPaper' =
          IF IsPaper(selectedPaper) /\ ~InYearRange(selectedPaper, yearRange')
          THEN JsNull ELSE selectedPaper
    /\ lastOp' = [op |-> "setYearRange"]
    /\ UNCHANGED <<papers, connections, loading, pending, state, calls>>
    /\ Rerender

\* first range input: onChange([parseInt(e.target.value), yearRange[1]])
SlideLow(value) ==
    /\ TimelineMounted
    /\ value \in SliderStops(TimelinePapers)
    /\ yearRange' = <<value, yearRange[2]>>
    /\ lastOp' = [op |-> "setYearRange"]
    /\ UNCHANGED <<papers, connections, selectedPaper, loading, pending, state, calls>>
    /\ Rerender

\* second range input: onChange([yearRange[0], parseInt(e.target.value)])
SlideHigh(value) ==
    /\ TimelineMounted
    /\ value \in SliderStops(TimelinePapers)
    /\ yearRange' = <<yearRange[1], value>>
    /\ lastOp' = [op |-> "setYearRange"]
    /\ UNCHANGED <<papers, connections, selectedPaper, loading, pending, state, calls>>
    /\ Rerender

\* Reset Timeline: setYearRange([1990, new Date().getFullYear()])
ResetTimeline ==
    /\ TimelineMounted
    /\ yearRange' = <<1990, CurrentYear>>
    /\ lastOp' = [op |-> "setYearRange"]
    /\ UNCHANGED <<papers, connections, selectedPaper, loading, pending, state, calls>>
    /\ Rerender

\* Last 5 Years: setYearRange([recentYear - 5, recentYear])
LastFiveYears ==
    /\ TimelineMounted
    /\ yearRange' = <<CurrentYear - 5, CurrentYear>>
    /\ lastOp' = [op |-> "setYearRange"]
    /\ UNCHANGED <<papers, connections, selectedPaper, loading, pending, state, calls>>
    /\ Rerender

---------------------------------------------------------------------------
(* Inputs: what the user types and what /api/analyze answers.              *)

\* the text handed to handleSearch, as characters
Inputs == {<<>>, <<" ">>, <<"7">>, <<" ", "7">>}

\* a response whose status is OK and whose body is data
Json(data) == [kind |-> "response", ok |-> TRUE, data |-> data]

Succeeds(network) == Json([success |-> TRUE, network |-> network])

\* no response, a status that is not OK, and an error body without a network
FailedResponses ==
    {[kind |-> "rejected"],
     [kind |-> "response", ok |-> FALSE],
     Json([success |-> FALSE])}

\* an object with the one key, and the object with no key
Field(key, value) == [k \in {key} |-> value]
NoField == [k \in {} |-> 0]

\* objects with the key set to one of the values, or without the key
Optional(key, values) == {NoField} \cup {Field(key, v) : v \in values}

\* the publication records with the given id, year and citation_count parts
PaperRecords(idParts, yearParts, citationParts) ==
    {i @@ y @@ c : i \in idParts, y \in yearParts, c \in citationParts}

\* the ids of a payload whose records carry their mapping key as id
Keys == <<"a", "b", "c", "d">>

Keyed(records) == [i \in 1..Len(records) |-> Field("id", Keys[i]) @@ records[i]]

\* the graphs of the application run: an empty graph, a two-publication graph
\* with an edge and a hint, a one-publication graph with a dangling edge, and
\* a graph with a record without id and a record without year
CatalogNetworks ==
    {[papers |-> <<>>],
     [papers |-> <<[id |-> "a", year |-> 1989, citation_count |-> 5],
                   [id |-> "b", year |-> 1991, citation_count |-> 100]>>,
      edges |-> <<[source |-> "a", target |-> "b", strength |-> 5]>>,
      central_paper |-> "a"],
     [papers |-> <<[id |-> "c", year |-> 1990, citation_count |-> 7]>>,
      edges |-> <<[source |-> "c", target |-> "zz"]>>],
     [papers |-> <<[year |-> 1800], [id |-> "a", citation_count |-> 5]>>,
      central_paper |-> "zz"]}

\* graphs over ids and citation counts: ids absent or repeated, counts absent,
\* zero or tied, any hint
CitationNetworks ==
    LET records == PaperRecords(Optional("id", {"a", "b"}),
                                {Field("year", 2000)},
                                Optional("citation_count", {0, 5}))
    IN  {Field("papers", ps) @@ hint :
            ps \in SeqsUpTo(records, MaxPapers),
            hint \in Optional("central_paper", {"a", "b"})}

\* graphs of publications with distinct ids, with and without a hint
StarNetworks ==
    LET records == PaperRecords({NoField}, {Field("year", 2000)},
                                Optional("citation_count", {5}))
    IN  {Field("papers", Keyed(ps)) @@ hint :
            ps \in SeqsUpTo(records, MaxPapers),
            hint \in Optional("central_paper", {"b"})}

\* graphs over years: absent, 0, before 1901, around 1990, and far from it
YearNetworks ==
    LET records == PaperRecords({NoField},
                                Optional("year", {0, 1800, 1989, 1991, 2015}),
                                Optional("citation_count", {5}))
    IN  {Field("papers", Keyed(ps)) : ps \in SeqsUpTo(records, MaxPapers)}

\* graphs over edges: no edge or one edge (connections.map treats each
\* connection by itself), endpoints among the first two keys, strength absent,
\* 0, 0.5 or 1
EdgeNetworks ==
    LET records == PaperRecords({NoField}, {Field("year", 1989), Field("year", 1991)},
                                {NoField})
        edges == {[source |-> src, target |-> tgt] @@ str :
                    src \in {"a", "b"}, tgt \in {"a", "b"},
                    str \in Optional("strength", {0, 5, 10})}
    IN  {[papers |-> Keyed(ps), edges |-> es] :
            ps \in SeqsUpTo(records, MaxPapers),
            es \in {<<>>} \cup {<<e>> : e \in edges}}

\* the responses /api/analyze gives for these graphs
CatalogResponses == {Succeeds(network) : network \in CatalogNetworks}
CitationResponses == {Succeeds(network) : network \in CitationNetworks}
StarResponses == {Succeeds(network) : network \in StarNetworks}
YearResponses == {Succeeds(network) : network \in YearNetworks}
EdgeResponses == {Succeeds(network) : network \in EdgeNetworks}

\* an OK response whose body carries a graph next to success: false (the App
\* does not read success)
FlaggedResponses ==
    {Json([success |-> FALSE, network |-> network]) : network \in CatalogNetworks}

---------------------------------------------------------------------------
(* usePapers.                                                              *)

\* the message of the Error the try block of usePapers.fetchPaperNetwork
\* throws: fetch rejects, the status is not OK, data.success is falsy
\* (data.error || 'Failed to analyze paper'), or data.network is undefined
ErrorMessage(response) ==
    IF response.kind = "rejected" THEN "Failed to fetch"
    ELSE IF ~response.ok THEN "API error"
    ELSE IF ~(Has(response.data, "success") /\ response.data.success)
         THEN IF Has(response.data, "error") THEN response.data.error
              ELSE "Failed to analyze paper"
    ELSE "Cannot read properties of undefined"

\* the try block of usePapers.fetchPaperNetwork throws
UsePapersThrows(response) ==
    IF response.kind = "rejected" THEN TRUE
    ELSE IF ~response.ok THEN TRUE
    ELSE IF ~(Has(response.data, "success") /\ response.data.success) THEN TRUE
    ELSE ~Has(response.data, "network")

\* newState of usePapers.fetchPaperNetwork, for each value of Math.random
NewStates(response) ==
    LET net == response.data.network
        rawPapers == IF Has(net, "papers") THEN net.papers ELSE <<>>
    IN  {[papers |-> PapersList(rawPapers, tokens),
          connections |-> IF Has(net, "edges") THEN net.edges ELSE <<>>,
          loading |-> FALSE,
          error |-> JsNull,
          stats |-> IF Has(net, "stats") THEN net.stats ELSE NoField]
         : tokens \in [1..Len(rawPapers) -> RandomTokens]}

\* the state the catch block spreads: useCallback(..., []) keeps the callback
\* of the first render, whose state constant is the initial state
ClosureState == InitialState

\* usePapers.fetchPaperNetwork up to the await:
\* setState(prev => ({ ...prev, loading: true, error: null }))
UsePapersFetch(input) ==
    /\ Len(calls) < MaxPending
    /\ state' = [state EXCEPT !.loading = TRUE, !.error = JsNull]
    /\ calls' = Append(calls, [input |-> input, loaded |-> Len(state.papers) > 0])
    /\ lastOp' = [op |-> "usePapers.fetch"]
    /\ UNCHANGED <<papers, connections, selectedPaper, loading, yearRange, hovered, pending>>

\* the i-th pending call resumes in its try block: setState(newState)
UsePapersSucceeds(i, response) ==
    /\ i \in 1..Len(calls)
    /\ ~UsePapersThrows(response)
    /\ state' \in NewStates(response)
    /\ calls' = RemoveAt(calls, i)
    /\ lastOp' = [op |-> "usePapers.succeeded"]
    /\ UNCHANGED <<papers, connections, selectedPaper, loading, yearRange, hovered, pending>>

\* the i-th pending call resumes in its catch block:
\* setState({ ...state, loading: false, error: error.message })
UsePapersFails(i, response) ==
    /\ i \in 1..Len(calls)
    /\ UsePapersThrows(response)
    /\ state' = [ClosureState EXCEPT !.loading = FALSE,
                                     !.error = [message |-> ErrorMessage(response)]]
    /\ calls' = RemoveAt(calls, i)
    /\ lastOp' = [op |-> "usePapers.failed", loaded |-> calls[i].loaded]
    /\ UNCHANGED <<papers, connections, selectedPaper, loading, yearRange, hovered, pending>>

\* usePapers.clearPapers
ClearPapers ==
    /\ state' = InitialState
    /\ lastOp' = [op |-> "usePapers.clearPapers"]
    /\ UNCHANGED <<papers, connections, selectedPaper, loading, yearRange, hovered,
                   pending, calls>>

\* the graphs the hook is given: one without papers, an empty one, one with a
\* publication, an edge and stats, and one with a record without id
UsePapersNetworks ==
    {NoField,
     [papers |-> <<>>, stats |-> [total_papers |-> 0]],
     [papers |-> <<[id |-> "c", year |-> 1990, citation_count |-> 7]>>,
      edges |-> <<[source |-> "c", target |-> "zz"]>>,
      stats |-> [total_papers |-> 1]],
     [papers |-> <<[year |-> 1800]>>]}

\* the responses the hook shows the graph of
UsePapersResponses == {Succeeds(network) : network \in UsePapersNetworks}

\* the responses the hook fails on: those the App fails on, success: false
\* with an error text or with a graph, and success: true without network
UsePapersFailures ==
    FailedResponses
        \cup {Json([success |-> FALSE, error |-> "Paper not found"]),
              Json([success |-> TRUE])}
        \cup {Json([success |-> FALSE, network |-> network])
                 : network \in UsePapersNetworks}

---------------------------------------------------------------------------
(* Specifications.                                                         *)

\* the user selects a publication or closes its card
Select ==
    \/ \E i \in 1..Len(papers) : StarClick(i)
    \/ CloseCard

\* the pointer enters or leaves a star
Hover ==
    \/ \E i \in 1..Len(papers) : PointerOver(i)
    \/ \E i \in 1..Len(papers) : PointerOut(i)

\* the user moves a handle of the timeline or presses one of its buttons
Timeline ==
    \/ \E value \in SliderStops(TimelinePapers) : SlideLow(value)
    \/ \E value \in SliderStops(TimelinePapers) : SlideHigh(value)
    \/ ResetTimeline
    \/ LastFiveYears

\* the application run: any searches, overlapping, over the catalogue
Next ==
    \/ \E input \in Inputs : HandleSearchBlank(input)
    \/ \E input \in Inputs : HandleSearch(input)
    \/ \E i \in 1..MaxPending, response \in CatalogResponses : SearchSucceeds(i, response)
    \/ \E i \in 1..MaxPending, response \in FlaggedResponses : SearchSucceeds(i, response)
    \/ \E i \in 1..MaxPending, response \in FailedResponses : SearchFails(i, response)
    \/ Select
    \/ Hover
    \/ Timeline

Spec == Init /\ [][Next]_vars

\* one graph is loaded into the empty application
Load(responses) ==
    \/ \E input \in Inputs : papers = <<>> /\ pending = <<>> /\ HandleSearch(input)
    \/ \E response \in responses : SearchSucceeds(1, response)

\* a graph over ids and citation counts is loaded, and publications selected
SpecCitations == Init /\ [][Load(CitationResponses) \/ Select]_vars

\* a graph with distinct ids is loaded, publications selected and stars hovered
SpecStars == Init /\ [][Load(StarResponses) \/ Select \/ Hover]_vars

\* a graph over years is loaded, and the year range moved
SpecYears == Init /\ [][Load(YearResponses) \/ Timeline]_vars

\* a graph with an edge is loaded, and the year range moved
SpecEdges == Init /\ [][Load(EdgeResponses) \/ Timeline]_vars

\* a component calls the hook: fetches, overlapping, and clearPapers
UsePapers ==
    \/ \E input \in Inputs : UsePapersFetch(input)
    \/ \E i \in 1..MaxPending, response \in UsePapersResponses :
          UsePapersSucceeds(i, response)
    \/ \E i \in 1..MaxPending, response \in UsePapersFailures :
          UsePapersFails(i, response)
    \/ ClearPapers

SpecUsePapers == Init /\ [][UsePapers]_vars

---------------------------------------------------------------------------
(* Properties.                                                             *)

\* the last step was a handleSearch showing the graph it fetched
SearchJustSucceeded == lastOp.op = "searchSucceeded"

\* the network of the response that step showed
ShownNetwork == lastOp.response.data.network

\* the largest citation count of a non-empty list, absent counted as 0
MaxCitation(ps) ==
    CHOOSE m \in {CitationCount(ps[i]) : i \in 1..Len(ps)} :
        \A i \in 1..Len(ps) : CitationCount(ps[i]) <= m

\* the places of the publications with the largest citation count
Maximal(ps) == {i \in 1..Len(ps) : CitationCount(ps[i]) = MaxCitation(ps)}

Least(S) == CHOOSE i \in S : \A j \in S : i <= j
Greatest(S) == CHOOSE i \in S : \A j \in S : i >= j

\* C1, as claimed: when two or more publications of the Galaxy's list share
\* the largest citation count, the central id is the id of the first of them.
C1_TieKeepsFirst ==
    (GalaxyMounted /\ Cardinality(Maximal(GalaxyPapers)) >= 2)
        => centralPaperId(GalaxyPapers) = GalaxyPapers[Least(Maximal(GalaxyPapers))].id

\* C1, amended: when two or more publications of the Galaxy's list share the
\* largest citation count, the central id is the id of the LAST of them.
C1_TieKeepsLast ==
    (GalaxyMounted /\ Cardinality(Maximal(GalaxyPapers)) >= 2)
        => centralPaperId(GalaxyPapers) = GalaxyPapers[Greatest(Maximal(GalaxyPapers))].id

\* a mounted Galaxy whose first and last most-cited publications differ in id
C1_Witness ==
    /\ GalaxyMounted
    /\ Cardinality(Maximal(GalaxyPapers)) >= 2
    /\ GalaxyPapers[Least(Maximal(GalaxyPapers))].id
         # GalaxyPapers[Greatest(Maximal(GalaxyPapers))].id

\* C2, as claimed: after a successful handleSearch the selected id is the
\* central id resolved for the new graph, and nothing is selected when the
\* new graph is empty.
C2_SelectsResolvedCentral ==
    SearchJustSucceeded =>
        IF papers = <<>> THEN ~IsPaper(selectedPaper)
        ELSE selectedPaperId = centralPaperId(papers)

\* C2, amended: after a successful handleSearch the selected publication is
\* the first one whose id is the response's central_paper hint if there is
\* one, otherwise the first publication of the list, and undefined when the
\* list is empty.
C2_SelectsHintOrFirst ==
    SearchJustSucceeded =>
        LET hinted == IF Has(ShownNetwork, "central_paper")
                      THEN {i \in 1..Len(papers) : papers[i].id = ShownNetwork.central_paper}
                      ELSE {}
        IN  selectedPaper = IF hinted # {} THEN papers[Least(hinted)]
                            ELSE IF papers # <<>> THEN papers[1]
                            ELSE JsUndefined

\* a search just showed a graph whose hint names a publication that is not
\* the first and not the most cited, and that publication is selected
C2_Witness ==
    /\ SearchJustSucceeded
    /\ Len(papers) >= 2
    /\ Has(ShownNetwork, "central_paper")
    /\ selectedPaperId = ShownNetwork.central_paper
    /\ selectedPaperId # papers[1].id
    /\ selectedPaperId # centralPaperId(papers)

\* C3, as claimed: after a successful handleSearch yearRange is the default
\* [1990, currentYear].
C3_RangeIsDefault == SearchJustSucceeded => yearRange = DefaultRange

\* C3, amended: a successful handleSearch leaves yearRange as the user had
\* set it.
C3_RangeKept == [][lastOp'.op = "searchSucceeded" => yearRange' = yearRange]_vars

\* a search just showed its graph while the year range was not the default
C3_Witness == SearchJustSucceeded /\ yearRange # DefaultRange

\* C4: the bucket counts of getYearDistribution add up to the number of
\* publications whose year is greater than 1900.
C4_HistogramConservation ==
    SumSeq(getYearDistribution(papers))
        = Cardinality({i \in 1..Len(papers) : YearOrZero(papers[i]) > 1900})

\* the places of the publications of the graph that pass the year range
InRange == {i \in 1..Len(papers) : InYearRange(papers[i], yearRange)}

\* C5, as claimed: the central id of the mounted Galaxy is the central id of
\* the whole graph, whatever the year range.
C5_CentralOfWholeGraph ==
    GalaxyMounted => centralPaperId(GalaxyPapers) = centralPaperId(papers)

\* C5, amended: the central id of the mounted Galaxy is the id of a most-cited
\* publication among those passing the year range, and null when none passes.
C5_CentralOfFiltered ==
    GalaxyMounted =>
        IF InRange = {} THEN centralPaperId(GalaxyPapers) = NullId
        ELSE \E i \in InRange :
                /\ papers[i].id = centralPaperId(GalaxyPapers)
                /\ \A j \in InRange :
                      CitationCount(papers[j]) <= CitationCount(papers[i])

\* the year range was moved and the Galaxy marks a publication that is not
\* the central publication of the whole graph
C5_Witness ==
    /\ GalaxyMounted
    /\ lastOp.op = "setYearRange"
    /\ InRange # {}
    /\ centralPaperId(GalaxyPapers) # centralPaperId(papers)

\* the strength a connection carries, absent read as 1
GivenStrength(connection) ==
    IF Has(connection, "strength") THEN connection.strength ELSE 10

\* C6: a drawn connection is blended, widened and made opaque by the strength
\* it carries (absent read as 1): strength 0 gives the first anchor colour,
\* width 0.3 and opacity 0.2, strength 1 the second anchor colour.
C6_StrengthDrivesLine ==
    \A i \in 1..Len(connections) :
        RenderedLines[i] # JsNull =>
            LET line == RenderedLines[i]
                strength == GivenStrength(connections[i])
            IN  /\ line.blend = strength
                /\ strength = 0 =>
                      /\ line.color = [r |-> 960, g |-> 1650, b |-> 2500]
                      /\ line.lineWidth = 3
                      /\ line.opacity = 20
                /\ strength = 10 =>
                      line.color = [r |-> 1390, g |-> 920, b |-> 2460]

\* the publication records of the response the last search showed
ShownRecords == ShownNetwork.papers

\* no two publications of the list share an id
IdsUnique == \A i, j \in 1..Len(papers) : i # j => papers[i].id # papers[j].id

\* C7, as claimed, on the payloads whose records all carry an id (an id may
\* repeat another record's): after a successful handleSearch no two
\* publications of the normalized list share an id.
C7_IdsUnique ==
    (SearchJustSucceeded /\ \A i \in 1..Len(ShownRecords) : Has(ShownRecords[i], "id"))
        => IdsUnique

\* C7, amended: the normalized list has one publication per record, each with
\* a non-empty id: the record's own id when it has one, a generated token
\* otherwise; the ids are distinct when the records all carry distinct ids.
C7_IdsFilled ==
    SearchJustSucceeded =>
        /\ Len(papers) = Len(ShownRecords)
        /\ \A i \in 1..Len(papers) :
              /\ Has(papers[i], "id") /\ papers[i].id # ""
              /\ Has(ShownRecords[i], "id") => papers[i].id = ShownRecords[i].id
              /\ ~Has(ShownRecords[i], "id") => papers[i].id \in RandomTokens
        /\ (/\ \A i \in 1..Len(papers) : Has(ShownRecords[i], "id")
            /\ \A i, j \in 1..Len(papers) :
                  i # j => ShownRecords[i].id # ShownRecords[j].id)
               => IdsUnique

\* a search just showed a payload with a record without id next to a record
\* with one
C7_Witness ==
    /\ SearchJustSucceeded
    /\ \E i \in 1..Len(papers) : ~Has(ShownRecords[i], "id")
    /\ \E i \in 1..Len(papers) : Has(ShownRecords[i], "id")

\* C8, as claimed: for an empty publication list the central id is null, no
\* publication is positioned or filtered, and the histogram has no bucket.
C8_EmptyGraphNoBuckets ==
    (SearchJustSucceeded /\ papers = <<>>) =>
        /\ centralPaperId(GalaxyPapers) = NullId
        /\ positionedPapers(GalaxyPapers) = <<>>
        /\ Len(filteredPapers) = 0
        /\ Len(getYearDistribution(papers)) = 0

\* C8, amended: for an empty publication list the central id is null, no
\* publication is positioned or filtered, and the histogram has 20 buckets,
\* each counting 0.
C8_EmptyGraphZeroBuckets ==
    (SearchJustSucceeded /\ papers = <<>>) =>
        /\ centralPaperId(GalaxyPapers) = NullId
        /\ positionedPapers(GalaxyPapers) = <<>>
        /\ Len(filteredPapers) = 0
        /\ getYearDistribution(papers) = [i \in 1..20 |-> 0]

\* a search just showed an empty graph
C8_Witness == SearchJustSucceeded /\ papers = <<>>

\* a publication of the graph with this id passes the year range
Shown(id) == \E k \in InRange : papers[k].id = id

\* C9: a connection is drawn if and only if the Galaxy is mounted and both its
\* source and its target are ids of publications passing the year range.
C9_DrawnIffBothEndsShown ==
    \A i \in 1..Len(connections) :
        RenderedLines[i] # JsNull
            <=> (/\ GalaxyMounted
                 /\ Shown(connections[i].source)
                 /\ Shown(connections[i].target))

\* the year range was moved and a connection between two publications of the
\* graph is not drawn, one of its ends being filtered out
C9_Witness ==
    /\ lastOp.op = "setYearRange"
    /\ GalaxyPapers # <<>>
    /\ \E i \in 1..Len(connections) :
          /\ RenderedLines[i] = JsNull
          /\ Shown(connections[i].source)
          /\ \E k \in 1..Len(papers) : papers[k].id = connections[i].target

\* C10: a publication of the graph is in filteredPapers if and only if it has
\* a year with yearRange[0] <= year <= yearRange[1], and filteredPapers holds
\* nothing else.
C10_FilterInclusive ==
    /\ \A i \in 1..Len(papers) :
          (\E j \in 1..Len(filteredPapers) : filteredPapers[j] = papers[i])
              <=> (/\ Has(papers[i], "year")
                   /\ yearRange[1] <= papers[i].year
                   /\ papers[i].year <= yearRange[2])
    /\ Len(filteredPapers) =
          Cardinality({i \in 1..Len(papers) :
                          /\ Has(papers[i], "year")
                          /\ yearRange[1] <= papers[i].year
                          /\ papers[i].year <= yearRange[2]})

\* a publication of year yearRange[0] passes while one of year
\* yearRange[1] + 1 does not
C10_Witness ==
    /\ \E j \in 1..Len(filteredPapers) : filteredPapers[j].year = yearRange[1]
    /\ \E i \in 1..Len(papers) :
          /\ Has(papers[i], "year") /\ papers[i].year = yearRange[2] + 1
          /\ \A j \in 1..Len(filteredPapers) : filteredPapers[j] # papers[i]

\* the hovered state of the Star with this id
IsHovered(id) == id \in hovered

\* C11: a star's scale target is 2 when it is selected, hovered or not, 1.5
\* when it is hovered and not selected, and 1 otherwise; its hover label is
\* shown exactly when it is hovered and not selected; a pointer-out leaves the
\* star it left not hovered.
C11_HighlightDerivation ==
    /\ \A i \in 1..Len(RenderedStars) :
          LET star == RenderedStars[i]
              selected == selectedPaperId = star.id
          IN  /\ selected => star.scale = 20
              /\ (~selected /\ IsHovered(star.id)) => star.scale = 15
              /\ (~selected /\ ~IsHovered(star.id)) => star.scale = 10
              /\ star.hoverLabel <=> (IsHovered(star.id) /\ ~selected)
    /\ lastOp.op = "pointerOut" => ~IsHovered(lastOp.id)

\* a star that is selected and hovered next to one that is hovered only
C11_Witness ==
    \E i, j \in 1..Len(RenderedStars) :
        /\ RenderedStars[i].id = selectedPaperId
        /\ IsHovered(RenderedStars[i].id)
        /\ RenderedStars[j].id # selectedPaperId
        /\ IsHovered(RenderedStars[j].id)

\* the step ends a fetch in a network error, a status that is not OK, a body
\* without a graph, or a body whose success flag is false
FetchJustFailed ==
    IF lastOp'.op = "searchFailed" THEN TRUE
    ELSE IF lastOp'.op = "searchSucceeded" THEN ~lastOp'.response.data.success
    ELSE FALSE

\* the selection is the same publication, or none before and after
SameSelection ==
    (IsPaper(selectedPaper) \/ IsPaper(selectedPaper')) => selectedPaper' = selectedPaper

\* C12: a fetch that ends in a network error, a status that is not OK or a
\* response whose success flag is false leaves papers, connections, the
\* selection and yearRange as they were, and loading false.
C12_FailureLeavesState ==
    [][FetchJustFailed =>
          /\ papers' = papers
          /\ connections' = connections
          /\ SameSelection
          /\ yearRange' = yearRange
          /\ ~loading']_vars

\* a publication whose year is absent or 0
Yearless(paper) == YearOrZero(paper) = 0

\* C13: a publication whose year is absent or 0 is not in the filtered set,
\* and the histogram is the one of the list without such publications: they
\* are counted in no bucket.
C13_YearlessExcluded ==
    /\ \A i \in 1..Len(filteredPapers) : ~Yearless(filteredPapers[i])
    /\ getYearDistribution(papers)
         = getYearDistribution(SelectSeq(papers, LAMBDA p : ~Yearless(p)))
    /\ SumSeq(getYearDistribution(papers))
         <= Cardinality({i \in 1..Len(papers) : ~Yearless(papers[i])})

\* the year range was moved over a graph with a publication whose year is
\* absent or 0 next to one that passes the range and is counted
C13_Witness ==
    /\ lastOp.op = "setYearRange"
    /\ \E i \in 1..Len(papers) : Yearless(papers[i])
    /\ Len(filteredPapers) > 0
    /\ SumSeq(getYearDistribution(papers)) > 0

\* C14: a year-range transition leaves the histogram counts and the
\* (minYear, maxYear) bounds as they were, both being those of the full
\* publication list, and the filtered set is exactly the publications with
\* lo <= year <= hi.
C14_HistogramIgnoresFilter ==
    [][lastOp'.op = "setYearRange" =>
          /\ TimelineView'.stats = TimelineView.stats
          /\ TimelineView'.distribution = TimelineView.distribution
          /\ TimelineView'.stats = yearStats(papers')
          /\ TimelineView'.distribution = getYearDistribution(papers')
          /\ filteredPapers' =
                SelectSeq(papers', LAMBDA p :
                    IF Has(p, "year")
                    THEN yearRange'[1] <= p.year /\ p.year <= yearRange'[2]
                    ELSE FALSE)]_vars

\* the year range was moved so that the histogram counts a publication the
\* filter leaves out
C14_Witness ==
    /\ lastOp.op = "setYearRange"
    /\ TimelineMounted
    /\ Len(filteredPapers) > 0
    /\ SumSeq(TimelineView.distribution) > Len(filteredPapers)

\* C15: a star click or a card close leaves yearRange as it was, and a move
\* of either slider handle, Reset Timeline or Last 5 Years leaves the selected
\* publication as it was, inside the new range or not.
C15_SelectionAndRangeIndependent ==
    [][/\ lastOp'.op = "setSelectedPaper" => yearRange' = yearRange
       /\ lastOp'.op = "setYearRange" => selectedPaper' = selectedPaper]_vars

\* the year range was moved and the selected publication is outside it
C15_Witness ==
    /\ lastOp.op = "setYearRange"
    /\ IsPaper(selectedPaper)
    /\ ~InYearRange(selectedPaper, yearRange)
    /\ yearRange # DefaultRange

\* C16: in every state with yearRange[0] > yearRange[1] the filtered set is
\* empty, and a mounted Galaxy has no position, no star, no central id and no
\* drawn connection.
C16_SwappedBoundsShowNothing ==
    yearRange[1] > yearRange[2] =>
        /\ filteredPapers = <<>>
        /\ positionedPapers(GalaxyPapers) = <<>>
        /\ RenderedStars = <<>>
        /\ centralPaperId(GalaxyPapers) = NullId
        /\ \A i \in 1..Len(connections) : RenderedLines[i] = JsNull

\* the handles were moved past each other over a mounted Galaxy whose graph
\* has a connection between two of its publications
C16_Witness ==
    /\ yearRange[1] > yearRange[2]
    /\ lastOp.op = "setYearRange"
    /\ GalaxyMounted
    /\ \E i \in 1..Len(connections), j, k \in 1..Len(papers) :
          /\ papers[j].id = connections[i].source
          /\ papers[k].id = connections[i].target

\* C17: for a non-empty publication list the resolved central id is the id of
\* a publication whose citation_count (absent counted as 0) is at least that
\* of every publication of the list; for the empty list it is null.
C17_CentralIsMaximal ==
    IF papers = <<>> THEN centralPaperId(papers) = NullId
    ELSE \E i \in 1..Len(papers) :
            /\ papers[i].id = centralPaperId(papers)
            /\ \A j \in 1..Len(papers) :
                  CitationCount(papers[i]) >= CitationCount(papers[j])

\* a list whose publications differ in citation count, one of them without a
\* count, and whose first publication is not the central one
C17_Witness ==
    /\ Len(papers) >= 2
    /\ \E i \in 1..Len(papers) : ~Has(papers[i], "citation_count")
    /\ MaxCitation(papers) > 0
    /\ centralPaperId(papers) # papers[1].id

\* the two lists show the same publications, generated ids aside
SameGraph(ps, qs) ==
    /\ Len(ps) = Len(qs)
    /\ \A i \in 1..Len(ps) :
          \/ ps[i] = qs[i]
          \/ /\ ps[i].id \in RandomTokens
             /\ qs[i].id \in RandomTokens
             /\ [ps[i] EXCEPT !.id = ""] = [qs[i] EXCEPT !.id = ""]

\* C18: when a search overtaken by a search issued after it settles with a
\* successful response, the application goes on displaying the publications
\* and connections of the most recently issued search (those displayed before
\* the step), in whatever order the responses arrived.
C18_NewestSearchDisplayed ==
    [][(/\ lastOp'.op = "searchSucceeded"
        /\ lastOp'.overtaken
        /\ lastOp'.response.data.success)
          => (SameGraph(papers', papers) /\ connections' = connections)]_vars

\* C19: loading is true in every state with a fetch pending and false in
\* every state with none.
C19_LoadingReflectsPending == loading <=> (pending # <<>>)

\* the selection is none (null or undefined)
NoSelection == selectedPaper \in {JsNull, JsUndefined}

\* C20: selectedPaper is either none or a publication whose id is the id of a
\* member of the current papers list.
C20_SelectionInGraph ==
    \/ NoSelection
    \/ /\ Has(selectedPaper, "id")
       /\ \E i \in 1..Len(papers) : papers[i].id = selectedPaper.id

\* C20 witness: a publication selected by a click on its star, then moved out
\* of the year range, is still the selection after a failed search.
C20_Witness ==
    /\ lastOp.op = "searchFailed"
    /\ ~NoSelection
    /\ Has(selectedPaper, "position")
    /\ \A i \in 1..Len(filteredPapers) : filteredPapers[i].id # selectedPaper.id
    /\ C20_SelectionInGraph

\* C21: a usePapers.fetchPaperNetwork call made after a fetch has loaded
\* publications, and failing while the hook holds publications, leaves papers,
\* connections and stats as they were, with loading false and error the
\* failure message.
C21_FailureKeepsData ==
    [][(/\ lastOp'.op = "usePapers.failed"
        /\ lastOp'.loaded
        /\ Len(state.papers) > 0)
          => /\ state'.papers = state.papers
             /\ state'.connections = state.connections
             /\ state'.stats = state.stats
             /\ ~state'.loading
             /\ state'.error # JsNull]_vars

====
